---------------------------- MODULE Spec2Model ----------------------------
(***************************************************************************)
(* Model of the fuzzy coverage-and-occlusion engine of adolphus            *)
(* (src/coverage/camera.py): the Scene occlusion grid, the Camera fuzzy    *)
(* model and the MultiCamera aggregators.                                  *)
(*                                                                         *)
(* Numbers.  Coordinates are integers in a fixed sub-lattice unit, so that *)
(* a point may lie off the pstep lattice when pstep > 1.  Python sequence  *)
(* indices 0,1,2 of a point are the indices 1,2,3 here.                    *)
(***************************************************************************)
EXTENDS Integers, Sequences, FiniteSets

VARIABLES
    scene,      \* the Scene object: fields x, y, z, pstep, dstep, opaque
    ret,        \* the call that ran last and how it ended
    occ,        \* activation record of the running Scene.occluded call
    gen,        \* what the last generate_points() generator yielded, in order
    cams,       \* the Camera objects held by the MultiCamera set
    pose,       \* the pose attribute of every Camera object
    inscene,    \* MultiCamera.inscene: camera name -> fuzzy set
    model,      \* MultiCamera.model: the aggregated fuzzy set
    policy,     \* the subclass of the network: "simple" or "3d"
    call,       \* the arguments and the outcome of the last pure call
    rmodel      \* the RangeModel of src/adolphus/laser.py and its target

net == <<cams, pose, inscene, model, policy>>

aux == <<call, rmodel>>

vars ==
    <<scene, ret, occ, gen, cams, pose, inscene, model, policy, call, rmodel>>

---------------------------------------------------------------------------
(* Bounds of the model *)

MaxCoord == 2       \* coordinates handed to the scene lie in 0..MaxCoord
MaxPStep == 2       \* pstep is drawn from 1..MaxPStep
MaxOpaque == 1      \* make_opaque is called while fewer cells are opaque
MaxDStep == 3       \* dstep is drawn from 1..MaxDStep angular units

\* pi in angular units: angles are integers in units of pi / 2.
PiU == 2

---------------------------------------------------------------------------
(* Arithmetic helpers *)

Abs(a) == IF a < 0 THEN -a ELSE a

Max2(a, b) == IF a >= b THEN a ELSE b

Min2(a, b) == IF a <= b THEN a ELSE b

\* int( a / b ) on floats: the quotient truncated toward zero (b > 0).
IntDiv(a, b) == IF a >= 0 THEN a \div b ELSE -((-a) \div b)

\* The vector v * e_i.
Axis(i, v) == [j \in 1..3 |-> IF j = i THEN v ELSE 0]

VAdd(a, b) == [j \in 1..3 |-> a[j] + b[j]]

Coords == 0..MaxCoord

\* The argument slot of a call that records none.
NoArg == <<0, 0, 0>>

\* What a call leaves in ret.
Ret(op, arg, cam, exc) == [op |-> op, arg |-> arg, cam |-> cam, exc |-> exc]

Points == [1..3 -> Coords]

---------------------------------------------------------------------------
(* Scene.make_opaque *)

\* The test that forgets the y and z coordinates.
OffGridXOnly(p, pstep) == p[1] % pstep # 0

\* p.x % pstep or p.y % pstep or p.z % pstep
OffGrid(p, pstep) == \E i \in 1..3 : p[i] % pstep # 0

make_opaque(p) ==
    /\ \/ p \in scene.opaque
       \/ Cardinality(scene.opaque) < MaxOpaque
       \/ OffGrid(p, scene.pstep)
    /\ IF OffGrid(p, scene.pstep)
       THEN /\ ret' = Ret("make_opaque", p, 0, "ValueError")
            /\ UNCHANGED scene
       ELSE /\ ret' = Ret("make_opaque", p, 0, "none")
            /\ scene' = [scene EXCEPT !.opaque = @ \cup {p}]

---------------------------------------------------------------------------
(* Scene.generate_points *)

\* numpy.arange( start, stop, step ): start + k * step for the
\* ceil( ( stop - start ) / step ) values of k from 0 on.
Arange(start, stop, step) ==
    LET n == IF stop > start THEN (stop - start + step - 1) \div step ELSE 0
    IN  [k \in 1..n |-> start + (k - 1) * step]

RECURSIVE Flatten(_)
Flatten(ss) == IF ss = <<>> THEN <<>> ELSE Head(ss) \o Flatten(Tail(ss))

\* The loop over rho and eta for one cell.
GenDirections(x, y, z, dstep) ==
    LET rhos == Arange(0, PiU + dstep, dstep)
        etas == Arange(0, 2 * PiU, dstep)
    IN  Flatten([i \in 1..Len(rhos) |->
            IF rhos[i] \in {0, PiU}
            THEN << <<x, y, z, rhos[i], 0>> >>
            ELSE [j \in 1..Len(etas) |-> <<x, y, z, rhos[i], etas[j]>>]])

\* The sequence the generator yields when it is run to exhaustion.
generate_points(sc) ==
    LET xs == Arange(sc.x[1], sc.x[2], sc.pstep)
        ys == Arange(sc.y[1], sc.y[2], sc.pstep)
        zs == Arange(sc.z[1], sc.z[2], sc.pstep)
    IN  Flatten([i \in 1..Len(xs) |->
          Flatten([j \in 1..Len(ys) |->
            Flatten([k \in 1..Len(zs) |->
              IF <<xs[i], ys[j], zs[k]>> \in sc.opaque
              THEN <<>>
              ELSE GenDirections(xs[i], ys[j], zs[k], sc.dstep)])])])

\* A caller runs a fresh generator to its end.
generate_points_call ==
    /\ gen' = generate_points(scene)
    /\ ret' = Ret("generate_points", NoArg, 0, "none")
    /\ UNCHANGED scene

---------------------------------------------------------------------------
(* Scene.occluded *)

\* d = [ abs( p[ i ] - cam[ i ] ) for i in range( 3 ) ]
OccD(p, cam) == [i \in 1..3 |-> Abs(p[i] - cam[i])]

\* u = [ cam[ i ] - int( cam[ i ] / self.pstep ) * self.pstep ... ]
OccU(cam, pstep) == [i \in 1..3 |-> cam[i] - IntDiv(cam[i], pstep) * pstep]

\* A step vector of two cells per axis instead of one.
OccSDouble(p, cam, pstep) ==
    [i \in 1..3 |->
        IF p[i] = cam[i] THEN 2 * pstep
        ELSE IF p[i] > cam[i] THEN 2 * pstep ELSE -2 * pstep]

\* s: pstep * ( p[ i ] - cam[ i ] ) / d[ i ], or pstep on ZeroDivisionError
OccS(p, cam, pstep) ==
    [i \in 1..3 |->
        IF p[i] = cam[i] THEN pstep
        ELSE IF p[i] > cam[i] THEN pstep ELSE -pstep]

\* driving axis: the tuple (x, y, z) of axis indices
DrivingAxes(d) ==
    IF d[1] > d[2] /\ d[1] > d[3] THEN <<1, 2, 3>>
    ELSE IF d[2] > d[1] /\ d[2] > d[3] THEN <<2, 3, 1>>
    ELSE <<3, 1, 2>>

\* The voxel of a point: int( q[ i ] / pstep ) * pstep on every axis.
Voxel(q, pstep) == [i \in 1..3 |-> IntDiv(q[i], pstep) * pstep]

\* The state of the traversal right before the while loop is entered.
OccSetup(p, cam, pstep) ==
    LET d == OccD(p, cam)
        u == OccU(cam, pstep)
        ax == DrivingAxes(d)
        x == ax[1]
        y == ax[2]
        z == ax[3]
    IN  [ p |-> p, cam |-> cam,
          P |-> Voxel(cam, pstep),
          exy |-> (u[y] - pstep) * d[x] + (pstep - u[x]) * d[y],
          exz |-> (u[z] - pstep) * d[x] + (pstep - u[x]) * d[z] ]

\* while s[ x ] * P[ x ] < s[ x ] * P2
OccContinue(st, pstep) ==
    LET x == DrivingAxes(OccD(st.p, st.cam))[1]
        s == OccS(st.p, st.cam, pstep)
        P2 == IntDiv(st.p[x], pstep) * pstep
    IN  s[x] * st.P[x] < s[x] * P2

\* One pass through the loop body, hits apart: the voxels it looks up in
\* self.opaque, in order, how many of them are looked up before P is
\* assigned, and the values P, exy and exz have at the end of the pass.
OccIter(st, pstep) ==
    LET d == OccD(st.p, st.cam)
        s == OccS(st.p, st.cam, pstep)
        ax == DrivingAxes(d)
        x == ax[1]
        y == ax[2]
        z == ax[3]
        P == st.P
        dxy == pstep * d[y]
        d1xy == dxy - pstep * d[x]
        dxz == pstep * d[z]
        d1xz == dxz - pstep * d[x]
    IN  IF st.exy > 0
        THEN IF st.exz > 0
             THEN LET nP == VAdd(P, s)
                  IN [ tests |-> << IF st.exy * d[z] > st.exz * d[y]
                                    THEN VAdd(P, Axis(y, s[y]))
                                    ELSE VAdd(P, Axis(z, s[z])),
                                    VAdd(P, VAdd(Axis(y, s[1]), Axis(z, s[1]))),
                                    nP >>,
                       before |-> 2, P |-> nP,
                       exy |-> st.exy + d1xy, exz |-> st.exz + d1xz ]
             ELSE [ tests |-> << VAdd(P, Axis(y, s[y])),
                                 VAdd(P, VAdd(Axis(x, s[1]), Axis(y, s[1]))) >>,
                    before |-> 2,
                    P |-> VAdd(P, VAdd(Axis(x, s[x]), Axis(y, s[y]))),
                    exy |-> st.exy + d1xy, exz |-> st.exz + dxz ]
        ELSE IF st.exz > 0
             THEN [ tests |-> << VAdd(P, Axis(z, s[z])),
                                 VAdd(P, VAdd(Axis(x, s[1]), Axis(z, s[1]))) >>,
                    before |-> 2,
                    P |-> VAdd(P, VAdd(Axis(x, s[x]), Axis(z, s[z]))),
                    exy |-> st.exy + dxy, exz |-> st.exz + d1xz ]
             ELSE [ tests |-> << VAdd(P, Axis(x, s[x])) >>,
                    before |-> 1,
                    P |-> VAdd(P, Axis(x, s[x])),
                    exy |-> st.exy + dxy, exz |-> st.exz + dxz ]

\* Index of the first looked-up voxel that is opaque, 0 when none is.
FirstHit(tests, opaque) ==
    IF \E i \in 1..Len(tests) : tests[i] \in opaque
    THEN CHOOSE i \in 1..Len(tests) :
            /\ tests[i] \in opaque
            /\ \A j \in 1..(i - 1) : tests[j] \notin opaque
    ELSE 0

\* The whole call as a function: TRUE when a looked-up voxel is opaque.
RECURSIVE OccRun(_, _, _)
OccRun(st, pstep, opaque) ==
    IF ~OccContinue(st, pstep) THEN FALSE
    ELSE LET it == OccIter(st, pstep)
         IN  IF FirstHit(it.tests, opaque) # 0 THEN TRUE
             ELSE OccRun([st EXCEPT !.P = it.P, !.exy = it.exy, !.exz = it.exz],
                         pstep, opaque)

occluded(p, cam, pstep, opaque) ==
    IF Voxel(cam, pstep) \in opaque THEN TRUE
    ELSE OccRun(OccSetup(p, cam, pstep), pstep, opaque)

Idle == [ pc |-> "idle" ]

\* The call, up to the loop: setup, driving axis, test of the origin voxel.
occluded_call(p, cam) ==
    /\ occ.pc = "idle"
    /\ LET st == OccSetup(p, cam, scene.pstep)
           hit == st.P \in scene.opaque
       IN  occ' = [ pc |-> IF hit THEN "done" ELSE "loop",
                    st |-> st, tested |-> << st.P >>, iters |-> 0,
                    result |-> hit ]
    /\ ret' = Ret("occluded", NoArg, 0, "none")
    /\ UNCHANGED scene

\* One iteration of the while loop.
occluded_iter ==
    /\ occ.pc = "loop"
    /\ OccContinue(occ.st, scene.pstep)
    /\ \E it \in { OccIter(occ.st, scene.pstep) } :
       \E h \in { FirstHit(it.tests, scene.opaque) } :
       LET n == IF h = 0 THEN Len(it.tests) ELSE h
       IN  occ' = [ pc |-> IF h = 0 THEN "loop" ELSE "done",
                    st |-> [occ.st EXCEPT
                              !.P = IF h = 0 \/ h > it.before THEN it.P ELSE @,
                              !.exy = IF h = 0 THEN it.exy ELSE @,
                              !.exz = IF h = 0 THEN it.exz ELSE @],
                    tested |-> occ.tested \o SubSeq(it.tests, 1, n),
                    iters |-> occ.iters + 1,
                    result |-> h # 0 ]
    /\ ret' = Ret("occluded", NoArg, 0, "none")
    /\ UNCHANGED scene

\* The loop condition fails: return False.
occluded_return ==
    /\ occ.pc = "loop"
    /\ ~OccContinue(occ.st, scene.pstep)
    /\ occ' = [occ EXCEPT !.pc = "done", !.result = FALSE]
    /\ ret' = Ret("occluded", NoArg, 0, "none")
    /\ UNCHANGED scene

\* The call has returned to its caller: its activation record is gone.
occluded_exit ==
    /\ occ.pc = "done"
    /\ occ' = Idle
    /\ UNCHANGED <<scene, ret>>

---------------------------------------------------------------------------
(* geometry: rotations, poses and the mapping of directional points.       *)
(* A directional point is <<x, y, z, rho, eta>>, the angles in units of    *)
(* pi / 2, so that every direction is one of the six axis directions and   *)
(* the rotations below map directions to directions exactly.               *)

\* sin and cos of an angle given in units of pi / 2.
SinU(a) == << 0, 1, 0, -1 >>[(a % 4) + 1]

CosU(a) == << 1, 0, -1, 0 >>[(a % 4) + 1]

\* The rotations of the model: the identity "I", the half turn about the
\* x axis "X" (Rotation.from_euler('zyx', (pi, 0, 0)) of src/test.py) and
\* the quarter turn about the y axis "Y", which turns the optical axis +z
\* into +x.
Rotations == {"I", "X", "Y"}

\* R.rotate( v )
Rotate(R, v) ==
    IF R = "X" THEN << v[1], -v[2], -v[3] >>
    ELSE IF R = "Y" THEN << v[3], v[2], -v[1] >>
    ELSE << v[1], v[2], v[3] >>

\* An inverse that turns the same way as the rotation.
InvRotateForward(R, v) == Rotate(R, v)

\* ( -R ).rotate( v )
InvRotate(R, v) ==
    IF R = "X" THEN << v[1], -v[2], -v[3] >>
    ELSE IF R = "Y" THEN << -v[3], v[2], v[1] >>
    ELSE << v[1], v[2], v[3] >>

\* The unit vector of the direction (rho, eta).
DirVec(rho, eta) ==
    << SinU(rho) * CosU(eta), SinU(rho) * SinU(eta), CosU(rho) >>

\* The angles (rho, eta) of an axis direction; eta is 0 at the poles.
VecDir(v) ==
    IF v[3] = 1 THEN << 0, 0 >>
    ELSE IF v[3] = -1 THEN << PiU, 0 >>
    ELSE IF v[1] = 1 THEN << 1, 0 >>
    ELSE IF v[2] = 1 THEN << 1, 1 >>
    ELSE IF v[1] = -1 THEN << 1, 2 >>
    ELSE << 1, 3 >>

\* A map that translates first and rotates the sum.
PoseMapTranslateFirst(ps, dp) ==
    LET q == Rotate(ps.R, << dp[1] + ps.T[1], dp[2] + ps.T[2],
                             dp[3] + ps.T[3] >>)
        a == VecDir(Rotate(ps.R, DirVec(dp[4], dp[5])))
    IN  << q[1], q[2], q[3], a[1], a[2] >>

\* Pose.map( dp ): rotate, then translate; the angles turn with R alone.
PoseMap(ps, dp) ==
    LET q == Rotate(ps.R, << dp[1], dp[2], dp[3] >>)
        a == VecDir(Rotate(ps.R, DirVec(dp[4], dp[5])))
    IN  << q[1] + ps.T[1], q[2] + ps.T[2], q[3] + ps.T[3], a[1], a[2] >>

\* ( -pose ).map( dp ): the point in the frame of the pose.
InvPoseMap(ps, dp) ==
    LET q == InvRotate(ps.R, << dp[1] - ps.T[1], dp[2] - ps.T[2],
                                dp[3] - ps.T[3] >>)
        a == VecDir(InvRotate(ps.R, DirVec(dp[4], dp[5])))
    IN  << q[1], q[2], q[3], a[1], a[2] >>

---------------------------------------------------------------------------
(* fuzz: trapezoidal fuzzy numbers and discrete fuzzy sets.  A membership  *)
(* degree is an integer: every one of the four memberships of a camera is  *)
(* a multiple of 1 / MuUnit, their product a multiple of 1 / MuUnit^4.     *)

MuUnit == 4

MuOne == MuUnit * MuUnit * MuUnit * MuUnit

\* TrapezoidalFuzzyNumber( ( k0, k1 ), ( s0, s1 ) ).mu( n / den ), den > 0,
\* rounded down to a multiple of 1 / MuUnit.
TrapMu(n, den, k0, k1, s0, s1) ==
    IF k0 * den <= n /\ n <= k1 * den THEN MuUnit
    ELSE IF s0 * den < n /\ n < k0 * den
         THEN (MuUnit * (n - s0 * den)) \div ((k0 - s0) * den)
    ELSE IF k1 * den < n /\ n < s1 * den
         THEN (MuUnit * (s1 * den - n)) \div ((s1 - k1) * den)
    ELSE 0

\* A FuzzySet is a function from its keys (the objects of its elements) to
\* their degrees; an element of degree 0 is an element.
EmptyFuzzySet == << >>

\* FuzzyElement( obj, mu )
FuzzyElement(obj, m) == [ obj |-> obj, mu |-> m ]

\* FuzzySet( elems ) for a sequence of elements with distinct objects.
FuzzySet(elems) ==
    LET E == { elems[i] : i \in 1..Len(elems) }
    IN  [ k \in { e.obj : e \in E } |-> (CHOOSE e \in E : e.obj = k).mu ]

\* FuzzySet.mu( key ): the degree of a key, 0 when it is absent.
MuOf(A, k) == IF k \in DOMAIN A THEN A[k] ELSE 0

\* A | B: the fuzzy union, the pointwise maximum over the keys of both.
FuzzyUnion(A, B) ==
    [ k \in (DOMAIN A) \cup (DOMAIN B) |-> Max2(MuOf(A, k), MuOf(B, k)) ]

\* A & B: the fuzzy intersection, the pointwise minimum over common keys.
FuzzyIntersection(A, B) ==
    [ k \in (DOMAIN A) \cap (DOMAIN B) |-> Min2(A[k], B[k]) ]

---------------------------------------------------------------------------
(* Camera *)

\* The fuzzy sets Camera.__init__ derives from the intrinsics, the same for
\* every camera of the model: Cvh and Cvv have kernel [-CvK, CvK] and
\* support [-CvS, CvS]; Cr has kernel [0, Zr1] and support [0, Zr2]; Cf
\* has kernel [Zl, Zr] and support [Zn, Zf].  zeta is Zeta * pi / 16.
CvK == 1

CvS == 2

Zr1 == 2

Zr2 == 4

Zl == 1

Zr == 2

Zn == 0

Zf == 4

Zeta == 8

Sgn(a) == IF a > 0 THEN 1 ELSE IF a < 0 THEN -1 ELSE 0

\* The direction membership mu_d of a point cp of the camera frame.  The
\* unit vector component terma is rounded to halves and the angle termb to
\* multiples of pi / 8, so that terma * termb is a multiple of pi / 16.
MuDZ(cp, zeta) ==
    LET r2 == cp[1] * cp[1] + cp[2] * cp[2]
        n == cp[2] * SinU(cp[5]) + cp[1] * CosU(cp[5])
        terma == IF r2 = 0 THEN 2
                 ELSE IF n * n = r2 THEN 2 * Sgn(n) ELSE Sgn(n)
        atn == IF r2 = 0 THEN 0
               ELSE IF r2 < cp[3] * cp[3] THEN 1
               ELSE IF r2 = cp[3] * cp[3] THEN 2 ELSE 3
        termb == IF cp[3] = 0 THEN 4 ELSE Sgn(cp[3]) * atn
        num == 8 * cp[4] - (8 + terma * termb)
    IN  Min2(Max2((MuUnit * num) \div zeta, 0), MuUnit)

\* The direction membership for the zeta of the cameras of the network.
MuD(cp) == MuDZ(cp, Zeta)

\* Camera.mu( dpoint ) for a camera with pose ps.
mu(ps, dpoint) ==
    LET campoint == InvPoseMap(ps, dpoint)
        cz == campoint[3]
        mu_v == IF cz = 0 THEN 0
                ELSE Min2(TrapMu(campoint[1] * Sgn(cz), Abs(cz),
                                 -CvK, CvK, -CvS, CvS),
                          TrapMu(campoint[2] * Sgn(cz), Abs(cz),
                                 -CvK, CvK, -CvS, CvS))
        mu_r == TrapMu(cz, 1, 0, Zr1, 0, Zr2)
        mu_f == TrapMu(cz, 1, Zl, Zr, Zn, Zf)
        mu_d == MuD(campoint)
    IN  mu_v * mu_r * mu_f * mu_d

\* isinstance( point, Point ): a Point is <<x, y, z>>, a DirectionalPoint
\* <<x, y, z, rho, eta>>; any other value is no Point.
IsPoint(pt) == Len(pt) \in {3, 5}

IsDirectional(pt) == Len(pt) = 5

\* ( -pose ).map( point ) for a Point or a DirectionalPoint.
InvMap(ps, pt) ==
    IF IsDirectional(pt) THEN InvPoseMap(ps, pt)
    ELSE InvRotate(ps.R, << pt[1] - ps.T[1], pt[2] - ps.T[2],
                            pt[3] - ps.T[3] >>)

\* The four memberships Camera.mu multiplies, for a point of the camera
\* frame and a zeta that is not 0.
Memberships(cp, zeta) ==
    LET cz == cp[3]
    IN  [ v |-> IF cz = 0 THEN 0
                ELSE Min2(TrapMu(cp[1] * Sgn(cz), Abs(cz),
                                 -CvK, CvK, -CvS, CvS),
                          TrapMu(cp[2] * Sgn(cz), Abs(cz),
                                 -CvK, CvK, -CvS, CvS)),
          r |-> TrapMu(cz, 1, 0, Zr1, 0, Zr2),
          f |-> TrapMu(cz, 1, Zl, Zr, Zn, Zf),
          d |-> IF IsDirectional(cp) THEN MuDZ(cp, zeta) ELSE MuUnit ]

\* A variant of Camera.mu that takes the least of the four memberships (the
\* line the source has commented out), on the scale of the product.
MuOutcomeMin(ps, zeta, pt) ==
    IF ~IsPoint(pt) THEN [ exc |-> "TypeError", val |-> 0 ]
    ELSE IF IsDirectional(pt) /\ zeta = 0
    THEN [ exc |-> "ZeroDivisionError", val |-> 0 ]
    ELSE LET m == Memberships(InvMap(ps, pt), zeta)
         IN  [ exc |-> "none",
               val |-> Min2(Min2(m.v, m.r), Min2(m.f, m.d))
                         * MuUnit * MuUnit * MuUnit ]

\* Camera.mu( point ) for a camera with pose ps and direction fuzzifier
\* zeta: the exception it raises, or the value it returns.  The division
\* by self.zeta is outside every try block.
MuOutcome(ps, zeta, pt) ==
    IF ~IsPoint(pt) THEN [ exc |-> "TypeError", val |-> 0 ]
    ELSE IF IsDirectional(pt) /\ zeta = 0
    THEN [ exc |-> "ZeroDivisionError", val |-> 0 ]
    ELSE LET m == Memberships(InvMap(ps, pt), zeta)
         IN  [ exc |-> "none", val |-> m.v * m.r * m.f * m.d ]

\* A caller evaluates camera.mu( point ).
mu_call ==
    /\ call.op = "input"
    /\ call' = [ call EXCEPT !.op = "mu",
                             !.out = MuOutcome(call.ps, call.zeta, call.pt) ]

---------------------------------------------------------------------------
(* MultiCamera, MultiCameraSimple, MultiCamera3D *)

NumCams == 2        \* the Camera objects of the model are 1..NumCams

CamIds == 1..NumCams

\* A second Camera object that has the name of camera 1.
Twin == NumCams + 1

\* An object that is no Camera and has an attribute name, the name of
\* camera 2; an object that is no Camera and has no attribute name.
Named == NumCams + 2

Nameless == NumCams + 3

\* The Camera objects, and the objects a caller may pass to add.
CamObjects == CamIds \cup {Twin}

Items == CamObjects \cup {Named, Nameless}

\* isinstance( item, Camera )
IsCamera(item) == item \in CamObjects

\* hasattr( item, 'name' )
HasName(item) == item # Nameless

\* item.name: the cameras 1..NumCams have distinct names.
CamName(c) == IF c = Twin THEN 1 ELSE IF c = Named THEN NumCams ELSE c

\* self[ key ]: the camera of the set with that name.
CamByKey(key) == CHOOSE c \in cams : CamName(c) = key

\* A variant of _update_inscene that leaves out the occlusion test; the
\* property of C6 tells it from _update_inscene.
UpdateInsceneUnoccluded(ps, sc) ==
    LET Covered(dp) == mu(ps, dp) > 0
        kept == SelectSeq(generate_points(sc), Covered)
    IN  FuzzySet([ i \in 1..Len(kept) |->
                     FuzzyElement(kept[i], mu(ps, kept[i])) ])

\* MultiCamera._update_inscene( key ): the fuzzy set stored for the key.
UpdateInscene(ps, sc) ==
    LET Covered(dp) ==
            /\ mu(ps, dp) > 0
            /\ ~occluded(<< dp[1], dp[2], dp[3] >>, ps.T, sc.pstep, sc.opaque)
        kept == SelectSeq(generate_points(sc), Covered)
    IN  FuzzySet([ i \in 1..Len(kept) |->
                     FuzzyElement(kept[i], mu(ps, kept[i])) ])

\* A variant of add that keeps the entries of the earlier cache next to
\* the new ones; the property of C11 tells it from add.
add_merging(item) ==
    /\ cams' = (IF \E c \in cams : CamName(c) = CamName(item)
                THEN cams ELSE cams \cup {item})
    /\ inscene' =
         LET key == CamName(item)
             cam == CHOOSE c \in cams' : CamName(c) = key
             fs == UpdateInscene(pose[cam], scene)
         IN  [ k \in (DOMAIN inscene) \cup {key} |->
                 IF k # key THEN inscene[k]
                 ELSE IF k \in DOMAIN inscene THEN FuzzyUnion(inscene[k], fs)
                 ELSE fs ]
    /\ ret' = Ret("add", NoArg, item, "none")
    /\ UNCHANGED <<scene, pose, model, policy>>

\* MultiCamera.add( item ).  IndexedSet.add leaves the set as it is when it
\* holds an object of that name.  _update_inscene( item.name ) then runs
\* for every item: item.name raises AttributeError when there is no such
\* attribute, and self[ key ], evaluated once per generated point, raises
\* KeyError when no camera of the set has that name.
add(item) ==
    LET cs == IF IsCamera(item) /\ ~\E c \in cams : CamName(c) = CamName(item)
              THEN cams \cup {item} ELSE cams
        key == CamName(item)
        none == Len(generate_points(scene)) = 0
    IN  /\ cams' = cs
        /\ IF ~HasName(item)
           THEN /\ inscene' = inscene
                /\ ret' = Ret("add", NoArg, item, "AttributeError")
           ELSE IF ~none /\ ~\E c \in cs : CamName(c) = key
           THEN /\ inscene' = inscene
                /\ ret' = Ret("add", NoArg, item, "KeyError")
           ELSE /\ inscene' =
                     LET cam == CHOOSE c \in cs : CamName(c) = key
                         fs == IF none THEN EmptyFuzzySet
                               ELSE UpdateInscene(pose[cam], scene)
                     IN  [ k \in (DOMAIN inscene) \cup {key} |->
                             IF k = key THEN fs ELSE inscene[k] ]
                /\ ret' = Ret("add", NoArg, item, "none")
        /\ UNCHANGED <<scene, pose, model, policy>>

\* camera.pose = ps: the pose of a camera is replaced.
set_pose(c, ps) ==
    /\ pose[c] # ps
    /\ pose' = [pose EXCEPT ![c] = ps]
    /\ ret' = Ret("set_pose", NoArg, 0, "none")
    /\ UNCHANGED <<scene, cams, inscene, model, policy>>

\* The fuzzy union of the fuzzy sets of a finite set, from the empty set.
RECURSIVE UnionAll(_, _)
UnionAll(acc, sets) ==
    IF sets = {} THEN acc
    ELSE LET f == CHOOSE f \in sets : TRUE
         IN  UnionAll(FuzzyUnion(acc, f), sets \ {f})

\* FuzzyElement.obj[ 0 : 3 ]: the position of a directional point.
Position(dp) == << dp[1], dp[2], dp[3] >>

\* A variant of MultiCameraSimple.update that keeps the common keys only,
\* with the least degree; the property of C7 tells it from update.
UpdateSimpleCommon(cs, ins) ==
    [ k \in { k \in UNION { DOMAIN ins[CamName(c)] : c \in cs } :
                \A c \in cs : k \in DOMAIN ins[CamName(c)] } |->
        CHOOSE m \in { ins[CamName(c)][k] : c \in cs } :
            \A c \in cs : m <= ins[CamName(c)][k] ]

\* MultiCameraSimple.update: the value assigned to self.model.
UpdateSimple(cs, ins) ==
    UnionAll(EmptyFuzzySet, { ins[CamName(c)] : c \in cs })

\* itertools.product( self, self ): every ordered pair, a camera with
\* itself included; the property of C8 tells it from combinations.
Product2(cs) == cs \X cs

\* itertools.combinations( self, 2 ): the pairs of distinct cameras, each
\* pair once.
Combinations2(cs) == { pair \in cs \X cs : pair[1] < pair[2] }

\* A variant of MultiCamera3D.update that drops the cached points of cells
\* that are opaque now; the property of C10 tells it from update.
Update3DRefiltered(cs, ins, sc) ==
    LET g == generate_points(sc)
        zero == FuzzySet([ i \in 1..Len(g) |-> FuzzyElement(g[i], 0) ])
        Live(f) == [ k \in { k \in DOMAIN f : Position(k) \notin sc.opaque }
                       |-> f[k] ]
        pairs == { Live(FuzzyIntersection(ins[CamName(pair[1])],
                                          ins[CamName(pair[2])])) :
                     pair \in Combinations2(cs) }
    IN  UnionAll(zero, pairs)

\* MultiCamera3D.update: the value assigned to self.model.
Update3D(cs, ins, sc) ==
    LET g == generate_points(sc)
        zero == FuzzySet([ i \in 1..Len(g) |-> FuzzyElement(g[i], 0) ])
        pairs == { FuzzyIntersection(ins[CamName(pair[1])],
                                     ins[CamName(pair[2])]) :
                     pair \in Combinations2(cs) }
    IN  UnionAll(zero, pairs)

\* The value update() of the network's class assigns to self.model: it
\* reads the camera set, the caches and, through generate_points, the scene.
AggregateOf(pol, cs, ins, sc) ==
    IF pol = "simple" THEN UpdateSimple(cs, ins) ELSE Update3D(cs, ins, sc)

\* The value update() assigns in the current state.
Aggregate == AggregateOf(policy, cams, inscene, scene)

update ==
    /\ model' = Aggregate
    /\ ret' = Ret("update", NoArg, 0, "none")
    /\ UNCHANGED <<scene, cams, pose, inscene, policy>>

---------------------------------------------------------------------------
(* The scene with occlusion queries *)

NoCall == Ret("init", NoArg, 0, "none")

\* No network has been built.
NoNet ==
    /\ cams = {}
    /\ pose = <<>>
    /\ inscene = <<>>
    /\ model = <<>>
    /\ policy = "simple"

\* No pure call has been made, and no RangeModel has been built.
NoAux ==
    /\ call = [ op |-> "none" ]
    /\ rmodel = <<>>

InitOcc ==
    /\ NoAux
    /\ gen = <<>>
    /\ NoNet
    /\ \E ps \in 1..MaxPStep :
          scene = [ x |-> <<0, MaxCoord>>, y |-> <<0, MaxCoord>>,
                    z |-> <<0, MaxCoord>>, pstep |-> ps, dstep |-> 1,
                    opaque |-> {} ]
    /\ ret = NoCall
    /\ occ = Idle

NextOcc ==
    \/ \E p \in Points :
          occ.pc = "idle" /\ make_opaque(p) /\ UNCHANGED <<aux, occ, gen, net>>
    \/ \E p \in Points, cam \in Points :
          occluded_call(p, cam) /\ UNCHANGED <<aux, gen, net>>
    \/ occluded_iter /\ UNCHANGED <<aux, gen, net>>
    \/ occluded_return /\ UNCHANGED <<aux, gen, net>>
    \/ occluded_exit /\ UNCHANGED <<aux, gen, net>>

SpecOcc == InitOcc /\ [][NextOcc]_vars

---------------------------------------------------------------------------
(* The scene under opacity edits alone; points may have negative          *)
(* coordinates here.                                                       *)

EditPoints == [1..3 -> (-1)..MaxCoord]

NextScene ==
    \E p \in EditPoints : make_opaque(p) /\ UNCHANGED <<aux, occ, gen, net>>

SpecScene == InitOcc /\ [][NextScene]_vars

---------------------------------------------------------------------------
(* C1 *)

OnGrid(p) == \A i \in 1..3 : \E k \in (-MaxCoord - 1)..(MaxCoord + 1) : p[i] = k * scene.pstep

OpaqueOnGrid == \A c \in scene.opaque : OnGrid(c)

MakeOpaqueContract ==
    ret'.op = "make_opaque" =>
        LET p == ret'.arg
        IN  IF OnGrid(p)
            THEN ret'.exc = "none" /\ p \in scene'.opaque
            ELSE ret'.exc = "ValueError" /\ scene'.opaque = scene.opaque

\* C1: make_opaque(p) raises ValueError and leaves the opaque set as it was
\* when a coordinate of p is no exact multiple of pstep, and otherwise
\* succeeds with p in the opaque set; so every opaque cell always has its
\* three coordinates on the pstep lattice.
C1_MakeOpaque == []OpaqueOnGrid /\ [][MakeOpaqueContract]_vars

\* An off-lattice make_opaque has just been refused while a cell added by an
\* earlier call is still the whole opaque set.
C1_Witness ==
    /\ ret.op = "make_opaque"
    /\ ret.exc = "ValueError"
    /\ ~OnGrid(ret.arg)
    /\ scene.opaque # {}

---------------------------------------------------------------------------
(* C2 *)

\* The straight segment from a to b meets the half-open cube
\* [c, c + pstep)^3 of cell c.  Every interval of the parameter on which the
\* segment is inside the cube has end points that are multiples of 1/n, so
\* it holds a multiple of 1/(2n).
Crossed(c, a, b, pstep) ==
    LET n == Max2(1, Abs(b[1] - a[1])) * Max2(1, Abs(b[2] - a[2]))
                * Max2(1, Abs(b[3] - a[3]))
    IN  \E k \in 0..(2 * n) :
            \A i \in 1..3 :
                /\ 2 * n * c[i] <= 2 * n * a[i] + k * (b[i] - a[i])
                /\ 2 * n * a[i] + k * (b[i] - a[i]) < 2 * n * (c[i] + pstep)

\* C2: with origin and point in non-opaque cells, occluded returns true
\* exactly when some cell crossed by the segment from origin to point is
\* opaque.
C2_OccludedIffCrossed ==
    ( /\ occ.pc = "done"
      /\ Voxel(occ.st.cam, scene.pstep) \notin scene.opaque
      /\ Voxel(occ.st.p, scene.pstep) \notin scene.opaque )
    => ( occ.result <=>
            \E c \in scene.opaque :
                Crossed(c, occ.st.cam, occ.st.p, scene.pstep) )

---------------------------------------------------------------------------
(* C3 *)

\* C3: the driving axis of the traversal has a coordinate delta that no
\* other axis exceeds.
C3_DrivingAxisGreatest ==
    occ.pc # "idle" =>
        LET d == OccD(occ.st.p, occ.st.cam)
        IN  \A i \in 1..3 : d[DrivingAxes(d)[1]] >= d[i]

---------------------------------------------------------------------------
(* C4 *)

\* b is the face neighbour of a one pstep along one axis on which the
\* segment moves, in the segment's direction on that axis.
FaceStep(a, b, p, cam, pstep) ==
    \E i \in 1..3 :
        /\ p[i] # cam[i]
        /\ b = VAdd(a, Axis(i, OccS(p, cam, pstep)[i]))

\* C4: the voxels tested for opacity form a 6-connected path from the
\* origin's voxel, and a call that returns false has reached the voxel of
\* the query point.
C4_SixConnected ==
    occ.pc # "idle" =>
        /\ occ.tested[1] = Voxel(occ.st.cam, scene.pstep)
        /\ \A k \in 1..(Len(occ.tested) - 1) :
              FaceStep(occ.tested[k], occ.tested[k + 1],
                       occ.st.p, occ.st.cam, scene.pstep)
        /\ (occ.pc = "done" /\ ~occ.result)
              => occ.st.P = Voxel(occ.st.p, scene.pstep)

---------------------------------------------------------------------------
(* The scene with point generation *)

InitGen ==
    /\ NoAux
    /\ \E hx \in 1..MaxCoord, hy \in 1..MaxCoord, hz \in 1..MaxCoord,
          ps \in 1..MaxPStep, ds \in 1..MaxDStep :
          scene = [ x |-> <<0, hx>>, y |-> <<0, hy>>, z |-> <<0, hz>>,
                    pstep |-> ps, dstep |-> ds, opaque |-> {} ]
    /\ ret = NoCall
    /\ occ = Idle
    /\ gen = <<>>
    /\ NoNet

NextGen ==
    \/ \E p \in Points : make_opaque(p) /\ UNCHANGED <<aux, occ, gen, net>>
    \/ generate_points_call /\ UNCHANGED <<aux, occ, net>>

SpecGen == InitGen /\ [][NextGen]_vars

---------------------------------------------------------------------------
(* C5 *)

\* The lattice cells of the region [x0,x1] x [y0,y1] x [z0,z1].
RegionCells(sc) ==
    { c \in Points :
        /\ \A i \in 1..3 : c[i] % sc.pstep = 0
        /\ sc.x[1] <= c[1] /\ c[1] <= sc.x[2]
        /\ sc.y[1] <= c[2] /\ c[2] <= sc.y[2]
        /\ sc.z[1] <= c[3] /\ c[3] <= sc.z[2] }

\* The directions sampled at dstep: the two poles once, every other rho
\* with every eta in [0, 2 pi).
SampledDirections(dstep) ==
    { <<0, 0>>, <<PiU, 0>> } \cup
    { <<rho, eta>> \in (1..(PiU - 1)) \X (0..(2 * PiU - 1)) :
        rho % dstep = 0 /\ eta % dstep = 0 }

\* C5: a call of generate_points() yields, without duplicates, exactly the
\* directional points of the non-opaque lattice cells of the region crossed
\* with the sampled directions.
C5_GeneratePoints ==
    ret.op = "generate_points" =>
        /\ \A i, j \in 1..Len(gen) : gen[i] = gen[j] => i = j
        /\ { gen[i] : i \in 1..Len(gen) } =
              { <<c[1], c[2], c[3], dr[1], dr[2]>> :
                  c \in RegionCells(scene) \ scene.opaque,
                  dr \in SampledDirections(scene.dstep) }

---------------------------------------------------------------------------
(* The camera network over a flat scene of 3 x 3 cells *)

\* The poses cameras are given: both look along +x into the scene, one from
\* the corner cell of the scene, one from outside it.
PoseSet ==
    { [T |-> <<0, 0, 0>>, R |-> "Y"],
      [T |-> <<-1, 1, 0>>, R |-> "Y"] }

NetScene ==
    [ x |-> <<0, 3>>, y |-> <<0, 3>>, z |-> <<0, 1>>,
      pstep |-> 1, dstep |-> 1, opaque |-> {} ]

\* The cells callers make opaque: each lies between a camera position of
\* PoseSet and cells of the scene.
Obstacles == { <<1, 1, 0>>, <<1, 0, 0>>, <<0, 1, 0>> }

\* MultiCamera.__init__( scene, cameras ): the state after construction.
InitNet ==
    /\ NoAux
    /\ scene = NetScene
    /\ ret = Ret("init", NoArg, 0, "none")
    /\ occ = Idle
    /\ gen = <<>>
    /\ policy \in {"simple", "3d"}
    /\ pose \in [CamIds -> PoseSet]
    /\ cams \in SUBSET CamIds
    /\ inscene = [ k \in { CamName(c) : c \in cams } |->
                     UpdateInscene(pose[CamByKey(k)], scene) ]
    /\ model = EmptyFuzzySet

NextNet ==
    \/ \E c \in CamIds : add(c) /\ UNCHANGED <<aux, occ, gen>>
    \/ \E c \in CamIds, ps \in PoseSet : set_pose(c, ps) /\ UNCHANGED <<aux, occ, gen>>
    \/ \E p \in Obstacles : make_opaque(p) /\ UNCHANGED <<aux, occ, gen, net>>
    \/ update /\ UNCHANGED <<aux, occ, gen>>

SpecNet == InitNet /\ [][NextNet]_vars

---------------------------------------------------------------------------
(* C6 *)

\* The directional points of the scene when no cell is opaque.
NetDPoints ==
    LET g == generate_points(NetScene) IN { g[i] : i \in 1..Len(g) }

\* The points generate_points() yields for a scene.
GeneratedIn(sc) ==
    LET g == generate_points(sc) IN { g[i] : i \in 1..Len(g) }

\* The points scene.generate_points() yields in the current state.
Generated == GeneratedIn(scene)

\* camera c covers dp, and dp is not occluded from its principal point.
Sees(c, dp) ==
    /\ mu(pose[c], dp) > 0
    /\ ~occluded(Position(dp), pose[c].T, scene.pstep, scene.opaque)

\* The in-scene set of camera c for its pose and the scene as they are now.
InSceneOf(c) == [ dp \in { q \in Generated : Sees(c, q) } |-> mu(pose[c], dp) ]

---------------------------------------------------------------------------
(* C7 *)

\* The greatest number of a finite set of naturals, 0 for the empty set.
SetMax(S) == IF S = {} THEN 0 ELSE CHOOSE m \in S : \A n \in S : n <= m

\* The least number of a non-empty finite set of naturals.
SetMin(S) == CHOOSE m \in S : \A n \in S : m <= n

\* The degree of dp in the in-scene set of camera c, 0 when absent.
InSceneMu(c, dp) == MuOf(inscene[CamName(c)], dp)

\* C7: after MultiCameraSimple.update(), the network membership of every
\* point is the greatest of its degrees in the cameras' in-scene sets.
C7_SimpleIsMax ==
    (ret.op = "update" /\ policy = "simple") =>
        \A dp \in NetDPoints \cup DOMAIN model :
            MuOf(model, dp) = SetMax({ InSceneMu(c, dp) : c \in cams })

\* The simple aggregate of two cameras gives a point that only one of them
\* has in its set the degree of that camera.
C7_Witness ==
    /\ ret.op = "update"
    /\ policy = "simple"
    /\ Cardinality(cams) = 2
    /\ \E a \in cams, b \in cams, dp \in NetDPoints :
          /\ dp \in DOMAIN inscene[CamName(a)]
          /\ dp \notin DOMAIN inscene[CamName(b)]
          /\ model[dp] = inscene[CamName(a)][dp]
          /\ model[dp] > 0

---------------------------------------------------------------------------
(* C8 *)

\* The unordered pairs of distinct cameras of the network.
CameraPairs == { pr \in SUBSET cams : Cardinality(pr) = 2 }

---------------------------------------------------------------------------
(* C9 *)

\* The cache of camera c is the one valid for its pose and the scene.
Fresh(c) == CamName(c) \in DOMAIN inscene /\ inscene[CamName(c)] = InSceneOf(c)

\* The position of cell c is a point of the straight segment from a to b,
\* strictly between its ends.
OnLineOfSight(c, a, b) ==
    LET v == [i \in 1..3 |-> b[i] - a[i]]
        w == [i \in 1..3 |-> c[i] - a[i]]
        dot == w[1] * v[1] + w[2] * v[2] + w[3] * v[3]
    IN  /\ w[2] * v[3] - w[3] * v[2] = 0
        /\ w[3] * v[1] - w[1] * v[3] = 0
        /\ w[1] * v[2] - w[2] * v[1] = 0
        /\ 0 < dot
        /\ dot < v[1] * v[1] + v[2] * v[2] + v[3] * v[3]

\* With no opaque cell and the caches of both cameras valid, the pairwise
\* coverage of a point both cover is the lesser of the two degrees.
C9_MinOfBoth ==
    ( /\ ret.op = "update"
      /\ policy = "3d"
      /\ cams = CamIds
      /\ scene.opaque = {}
      /\ \A c \in cams : Fresh(c) )
    => \A dp \in NetDPoints :
          (\A c \in cams : mu(pose[c], dp) > 0)
          => MuOf(model, dp) = SetMin({ mu(pose[c], dp) : c \in cams })

\* Both cameras of a pairwise network of two cover dp, and an opaque cell
\* lies exactly on the line of sight of camera a to dp.
Hidden(a, dp) ==
    /\ policy = "3d"
    /\ cams = CamIds
    /\ Position(dp) \notin scene.opaque
    /\ \E c \in scene.opaque : OnLineOfSight(c, pose[a].T, Position(dp))
    /\ \A c \in cams : mu(pose[c], dp) > 0

\* Adding camera A again drops the hidden point from its in-scene set.
C9_Dropped ==
    (ret'.op = "add" /\ ret'.cam \in cams) =>
        \A dp \in NetDPoints :
            Hidden(ret'.cam, dp) => dp \notin DOMAIN inscene'[CamName(ret'.cam)]

\* The update() that follows gives the hidden point coverage 0.
C9_ZeroAfterUpdate ==
    (ret.op = "add" /\ ret'.op = "update") =>
        \A dp \in NetDPoints : Hidden(ret.cam, dp) => MuOf(model', dp) = 0

\* C9: in a pairwise network of two cameras that both cover p in a scene
\* without opaque cells, update() gives p the lesser of the two degrees;
\* once a cell exactly on the line of sight of A to p is opaque and A is
\* added again, p is absent from the in-scene set of A, and the update()
\* that follows gives p coverage 0.
C9_EndToEnd ==
    []C9_MinOfBoth /\ [][C9_Dropped /\ C9_ZeroAfterUpdate]_vars

---------------------------------------------------------------------------
(* C10 *)

\* update() has just run, and the step leaves the camera set and the
\* caches as they are.
CachesKept == ret.op = "update" /\ UNCHANGED <<cams, inscene, policy>>

\* update() assigns the aggregate, and nothing but the aggregate.
UpdateFrame ==
    ret'.op = "update" =>
        /\ model' = Aggregate
        /\ UNCHANGED <<scene, cams, pose, inscene, policy>>

\* The statement of the claim: once update() has run, a step that leaves
\* the caches alone (a pose change, a make_opaque, another update) leaves
\* the aggregate update() yields equal to the aggregate before the step.
C10_SolelyCaches ==
    [][ /\ UpdateFrame
        /\ CachesKept => AggregateOf(policy, cams, inscene, scene') = model
      ]_vars

\* The keys of the cached sets that two distinct cameras share.
SharedKeys ==
    UNION { DOMAIN inscene[CamName(pair[1])] \cap
            DOMAIN inscene[CamName(pair[2])] : pair \in Combinations2(cams) }

\* f and g give every point the same degree, absent counting as 0.
SameDegrees(f, g) ==
    \A dp \in NetDPoints \cup DOMAIN f \cup DOMAIN g : MuOf(f, dp) = MuOf(g, dp)

DegreesKept ==
    CachesKept =>
        \A after \in { AggregateOf(policy, cams, inscene, scene') } :
            /\ SameDegrees(after, model)
            /\ policy = "simple" => after = model
            /\ policy = "3d" =>
                  DOMAIN after = GeneratedIn(scene') \cup SharedKeys

\* C10: update() assigns the aggregate and leaves the caches, the camera
\* set, the poses and the opaque set unchanged; once it has run, a step
\* that leaves the caches alone leaves the membership degrees update()
\* yields (absent counting as 0) as they were; under the simple policy the
\* aggregate is the same, under the pairwise policy its keys are the points
\* generate_points() yields for the opaque set as it is now, together with
\* the keys two cameras share.
C10_DegreesSolelyCaches == [][UpdateFrame /\ DegreesKept]_vars

\* After an update() of the pairwise network a cell was made opaque and no
\* camera added again: a cache holds a point of the opaque cell, update()
\* would yield the degrees of the aggregate, but not its keys.
C10_Witness ==
    /\ ret.op = "make_opaque"
    /\ ret.exc = "none"
    /\ policy = "3d"
    /\ cams = CamIds
    /\ \E dp \in DOMAIN model :
          /\ model[dp] > 0
          /\ Position(dp) \in scene.opaque
          /\ MuOf(Aggregate, dp) = model[dp]
    /\ SameDegrees(Aggregate, model)
    /\ DOMAIN Aggregate # DOMAIN model

---------------------------------------------------------------------------
(* C11 *)

\* A camera of the network is added again: its cache becomes the set a
\* freshly built network computes for its pose and the opaque set as they
\* are, whatever the cache held before.
ReaddReplaces ==
    (ret'.op = "add" /\ ret'.cam \in cams) =>
        \A fresh \in { InSceneOf(ret'.cam) } :
            /\ inscene'[CamName(ret'.cam)] = fresh
            /\ \A dp \in DOMAIN inscene[CamName(ret'.cam)] \ DOMAIN fresh :
                  dp \notin DOMAIN inscene'[CamName(ret'.cam)]

\* The camera that has just been added is added once more, nothing else
\* having changed: the caches stay equal.
ReaddIdempotent ==
    (ret.op = "add" /\ ret'.op = "add" /\ ret'.cam = ret.cam) =>
        inscene' = inscene

\* C11: adding a camera of the network again, after its pose was replaced
\* or after opacity edits, replaces its cache wholesale with the set a
\* freshly built network computes for the current pose and opaque set, and
\* adding it once more with nothing changed leaves the cache equal.
C11_ReaddIdempotent == [][ReaddReplaces /\ ReaddIdempotent]_vars

\* The only camera of a simple network has been added again after an
\* update(): a point the aggregate still holds from the earlier cache is
\* gone from the cache, which is the one valid for the scene as it is.
C11_Witness ==
    /\ ret.op = "add"
    /\ policy = "simple"
    /\ cams = {ret.cam}
    /\ Fresh(ret.cam)
    /\ \E dp \in DOMAIN model :
          model[dp] > 0 /\ dp \notin DOMAIN inscene[CamName(ret.cam)]

---------------------------------------------------------------------------
(* The network with equal-named Camera objects and items of other classes, *)
(* over a scene of one row of one or two cells                             *)

MaxWidth == 2       \* the scene has 1..MaxWidth cells

NameScene(w) ==
    [ x |-> <<0, w>>, y |-> <<1, 2>>, z |-> <<0, 1>>,
      pstep |-> 1, dstep |-> 1, opaque |-> {} ]

\* No two objects of a set of Camera objects are equal: IndexedSet keeps one
\* object per name.
DistinctNames(cs) ==
    \A a \in cs, b \in cs : CamName(a) = CamName(b) => a = b

\* MultiCamera.__init__( scene, cameras ) for any set of Camera objects.
InitNames ==
    /\ NoAux
    /\ \E w \in 1..MaxWidth : scene = NameScene(w)
    /\ ret = Ret("init", NoArg, 0, "none")
    /\ occ = Idle
    /\ gen = <<>>
    /\ policy \in {"simple", "3d"}
    /\ pose \in [CamObjects -> PoseSet]
    /\ cams \in { cs \in SUBSET CamObjects : DistinctNames(cs) }
    /\ inscene = [ k \in { CamName(c) : c \in cams } |->
                     UpdateInscene(pose[CamByKey(k)], scene) ]
    /\ model = EmptyFuzzySet

NextNames ==
    \/ \E item \in Items : add(item) /\ UNCHANGED <<aux, occ, gen>>
    \/ \E c \in CamObjects, ps \in PoseSet :
          set_pose(c, ps) /\ UNCHANGED <<aux, occ, gen>>
    \/ \E p \in { Position(dp) : dp \in GeneratedIn(scene) } :
          make_opaque(p) /\ UNCHANGED <<aux, occ, gen, net>>
    \/ update /\ UNCHANGED <<aux, occ, gen>>

SpecNames == InitNames /\ [][NextNames]_vars

---------------------------------------------------------------------------
(* C12 *)

\* C12: no two cameras of the network have the same name, and the keys of
\* the in-scene cache are exactly the names of the cameras of the network.
C12_NamesAreKeys ==
    /\ DistinctNames(cams)
    /\ DOMAIN inscene = { CamName(c) : c \in cams }

---------------------------------------------------------------------------
(* Camera.mu as a function of the pose, zeta and the point *)

\* The poses of the camera: every rotation of the model at two positions.
MuPoses == { [T |-> t, R |-> r] : t \in { <<0, 0, 0>>, <<1, 0, -1>> },
                                   r \in Rotations }

\* zeta: 0, pi / 4 and pi / 2, in units of pi / 16.
Zetas == { 0, Zeta \div 2, Zeta }

\* The arguments: Points and DirectionalPoints around the camera, and a
\* value that is no Point.
MuPositions == [1..3 -> (-1)..MaxCoord]

AxisDirections == { <<0, 0>>, <<PiU, 0>> } \cup { <<1, e>> : e \in 0..3 }

MuArgs ==
    MuPositions
    \cup { << p[1], p[2], p[3], a[1], a[2] >> :
             p \in MuPositions, a \in AxisDirections }
    \cup { << 0 >> }

InitMu ==
    /\ scene = NetScene
    /\ ret = NoCall
    /\ occ = Idle
    /\ gen = <<>>
    /\ NoNet
    /\ rmodel = <<>>
    /\ \E ps \in MuPoses, z \in Zetas, pt \in MuArgs :
          call = [ op |-> "input", ps |-> ps, zeta |-> z, pt |-> pt,
                   out |-> [ exc |-> "none", val |-> 0 ] ]

NextMu == mu_call /\ UNCHANGED <<scene, ret, occ, gen, net, rmodel>>

SpecMu == InitMu /\ [][NextMu]_vars

---------------------------------------------------------------------------
(* C13 *)

\* C13: Camera.mu of a Point or DirectionalPoint never ends in a
\* ZeroDivisionError, and returns 0 when the point has z = 0 in the frame
\* of the camera.
C13_NoZeroDivision ==
    (call.op = "mu" /\ IsPoint(call.pt)) =>
        /\ call.out.exc # "ZeroDivisionError"
        /\ InvMap(call.ps, call.pt)[3] = 0 =>
              (call.out.exc = "none" /\ call.out.val = 0)

---------------------------------------------------------------------------
(* C14 *)

\* The point of the camera frame is outside the fuzzified field of view:
\* x / z or y / z lies outside the support of Cvh or Cvv, or z is 0.
OutsideFieldOfView(cp) ==
    \/ cp[3] = 0
    \/ Abs(cp[1]) >= CvS * Abs(cp[3])
    \/ Abs(cp[2]) >= CvS * Abs(cp[3])

\* Camera.mu has returned the product of the four memberships, a degree
\* between 0 and 1 that is 0 when a membership is 0 and when the point is
\* outside the fuzzified field of view.
ReturnsProduct ==
    /\ call.out.exc = "none"
    /\ \A cp \in { InvMap(call.ps, call.pt) } :
          \A m \in { Memberships(cp, IF call.zeta = 0 THEN Zeta
                                     ELSE call.zeta) } :
              /\ call.out.val = m.v * m.r * m.f * m.d
              /\ ~IsDirectional(call.pt) => m.d = MuUnit
              /\ (m.v = 0 \/ m.r = 0 \/ m.f = 0 \/ m.d = 0)
                    => call.out.val = 0
              /\ OutsideFieldOfView(cp) => call.out.val = 0
    /\ call.out.val \in 0..MuOne

\* C14: for every Point or DirectionalPoint, Camera.mu returns the product
\* min(Cvh, Cvv) * Cr * Cf * direction of the memberships in the frame of
\* the camera, with direction 1 for a Point; the result is in [0, 1], and
\* 0 when a membership is 0, so for every point outside the fuzzified field
\* of view.
C14_ProductInUnitRange ==
    (call.op = "mu" /\ IsPoint(call.pt)) => ReturnsProduct

---------------------------------------------------------------------------
(* RangeModel: the items of the model, the side set of lasers and
   range_coverage.  The base class Model is taken as a dictionary. *)

MaxKeys == 2
MaxTarget == 2
MaxExtent == 3
MaxPitch == 2

Keys == 1..MaxKeys

\* The classes of the values assigned to the keys of a RangeModel.
Kinds == {"LineLaser", "RangeCamera", "SceneObject"}

\* isinstance( value, LineLaser )
IsLineLaser(value) == value = "LineLaser"

\* The transport styles passed to range_coverage.
Styles == {"linear", "rotary", "spiral"}

\* RangeModel.__init__ with a target object at pose p.
RangeInit(p) ==
    [ items |-> <<>>, lasers |-> {}, pose |-> p, projected |-> 0,
      moved |-> 0, out |-> [ op |-> "init", exc |-> "none" ] ]

\* The base class stores the value under the key.
ModelSetItem(items, key, value) ==
    [ k \in DOMAIN items \cup {key} |->
        IF k = key THEN value ELSE items[k] ]

\* The base class removes the key.
ModelDelItem(items, key) ==
    [ k \in DOMAIN items \ {key} |-> items[k] ]

\* RangeModel.__setitem__( key, value )
setitem(key, value) ==
    /\ rmodel # <<>>
    /\ rmodel' = [ rmodel EXCEPT
          !.lasers = IF IsLineLaser(value) THEN @ \cup {key} ELSE @,
          !.items = ModelSetItem(@, key, value),
          !.out = [ op |-> "setitem", exc |-> "none" ] ]

\* RangeModel.__delitem__( key ): the key is discarded from the lasers
\* before the base class looks it up.
delitem(key) ==
    /\ rmodel # <<>>
    /\ rmodel' = [ rmodel EXCEPT
          !.lasers = @ \ {key},
          !.items = ModelDelItem(@, key),
          !.out = [ op |-> "delitem",
                    exc |-> IF key \in DOMAIN rmodel.items THEN "none"
                            ELSE "KeyError" ] ]

\* SceneObject.set_absolute_pose( p ) on the target, by the caller.
set_absolute_pose(p) ==
    /\ rmodel # <<>>
    /\ rmodel' = [ rmodel EXCEPT !.pose = p,
                                 !.out = [ op |-> "set_absolute_pose",
                                           exc |-> "none" ] ]

\* The pose of the target for profile i of the linear transport.
ProfilePose(original_pose, tpitch, i, gv) == original_pose + (tpitch * i - gv)

\* The pose the target is left in by the poses it is given in turn.
RECURSIVE LastPose(_, _)
LastPose(pose0, poses) ==
    IF poses = <<>> THEN pose0 ELSE LastPose(Head(poses), Tail(poses))

\* The linear transport: the target is stepped through the laser plane, a
\* profile is projected and covered at every step, and the target is put
\* back.
LinearTransport(original_pose, extent, tpitch) ==
    IF tpitch = 0
    THEN [ exc |-> "ZeroDivisionError", projected |-> 0, moved |-> 0,
           pose |-> original_pose ]
    ELSE LET gv == original_pose + extent
             steps == extent \div tpitch
             poses == [ i \in 1..steps |->
                          ProfilePose(original_pose, tpitch, i - 1, gv) ]
                      \o << original_pose >>
         IN  [ exc |-> "none", projected |-> steps, moved |-> Len(poses),
               pose |-> LastPose(original_pose, poses) ]

\* A range_coverage that runs the linear transport for every style.
RangeCoverageAnyStyle(tstyle, original_pose, extent, tpitch) ==
    LinearTransport(original_pose, extent, tpitch)

\* RangeModel.range_coverage( laser, target, lpitch, tpitch, taxis, tstyle )
\* for a target of the given extent along taxis.
RangeCoverage(tstyle, original_pose, extent, tpitch) ==
    IF tstyle = "linear"
    THEN LinearTransport(original_pose, extent, tpitch)
    ELSE [ exc |-> "ValueError", projected |-> 0, moved |-> 0,
           pose |-> original_pose ]

range_coverage(tstyle, extent, tpitch) ==
    /\ rmodel # <<>>
    /\ \E r \in { RangeCoverage(tstyle, rmodel.pose, extent, tpitch) } :
          rmodel' = [ rmodel EXCEPT
              !.pose = r.pose,
              !.projected = r.projected,
              !.moved = r.moved,
              !.out = [ op |-> "range_coverage", exc |-> r.exc,
                        tstyle |-> tstyle ] ]

InitRange ==
    /\ scene = NetScene
    /\ ret = NoCall
    /\ occ = Idle
    /\ gen = <<>>
    /\ NoNet
    /\ call = [ op |-> "none" ]
    /\ rmodel \in { RangeInit(p) : p \in 0..MaxTarget }

NextRange ==
    \/ \E key \in Keys, value \in Kinds :
          setitem(key, value) /\ UNCHANGED <<scene, ret, occ, gen, net, call>>
    \/ \E key \in Keys :
          delitem(key) /\ UNCHANGED <<scene, ret, occ, gen, net, call>>
    \/ \E p \in 0..MaxTarget :
          set_absolute_pose(p) /\ UNCHANGED <<scene, ret, occ, gen, net, call>>
    \/ \E tstyle \in Styles, extent \in 0..MaxExtent, tpitch \in 0..MaxPitch :
          range_coverage(tstyle, extent, tpitch)
             /\ UNCHANGED <<scene, ret, occ, gen, net, call>>

SpecRange == InitRange /\ [][NextRange]_vars

---------------------------------------------------------------------------
(* C15 *)

---------------------------------------------------------------------------
(* C19 *)

\* C19: after any sequence of item assignments and deletions, lasers is
\* exactly the set of keys whose current value is a LineLaser.
C19_LasersAreLineLasers ==
    rmodel # <<>> =>
        rmodel.lasers = { k \in DOMAIN rmodel.items :
                            IsLineLaser(rmodel.items[k]) }

---------------------------------------------------------------------------
(* C18 *)

\* The statements of a running call are executed one after the other.
OccStep == (occluded_iter \/ occluded_return) /\ UNCHANGED <<aux, gen, net>>

SpecOccFair == SpecOcc /\ WF_vars(OccStep)

\* The driving axis of the running call.
DrivingAxis == DrivingAxes(OccD(occ.st.p, occ.st.cam))[1]

\* The driving-axis cell coordinate of the target: P2.
TargetCell == IntDiv(occ.st.p[DrivingAxis], scene.pstep) * scene.pstep

\* The driving-axis cell coordinate of the origin.
OriginCell == IntDiv(occ.st.cam[DrivingAxis], scene.pstep) * scene.pstep

\* An iteration that runs to the end of the loop body takes P from Pb to Pa
\* on the driving axis: exactly one pstep, toward the target.
AdvancesOneStep(Pb, Pa) ==
    /\ Abs(Pa - Pb) = scene.pstep
    /\ Abs(TargetCell - Pa) = Abs(TargetCell - Pb) - scene.pstep

IterationsAdvance ==
    [][ (occ.pc = "loop" /\ occ'.pc = "loop")
           => /\ occ'.iters = occ.iters + 1
              /\ AdvancesOneStep(occ.st.P[DrivingAxis], occ'.st.P[DrivingAxis])
      ]_vars

\* The number of iterations is at most the distance of the two cell
\* coordinates in psteps, so zero when they are equal.
IterationsBounded ==
    occ.pc # "idle" =>
        occ.iters * scene.pstep <= Abs(TargetCell - OriginCell)

\* C18: occluded terminates when pstep > 0: every iteration of the loop, in
\* each of its four branches, advances the driving-axis cell coordinate by
\* exactly one pstep toward the target, the loop runs at most (distance of
\* the origin's and the target's driving-axis cell coordinates) / pstep
\* times, zero times when the two are equal, and the call returns.
C18_Terminates ==
    /\ IterationsAdvance
    /\ []IterationsBounded
    /\ (occ.pc = "loop" ~> occ.pc = "done")

\* A call has returned false after two iterations, the full distance.
C18_Witness ==
    /\ occ.pc = "done"
    /\ ~occ.result
    /\ occ.iters = 2
    /\ occ.iters * scene.pstep = Abs(TargetCell - OriginCell)

---------------------------------------------------------------------------
(* Pose.map and the inverse pose as functions of the pose and the point *)

\* pose.map( pt ) for a Point or a DirectionalPoint.
Map(ps, pt) ==
    IF IsDirectional(pt) THEN PoseMap(ps, pt)
    ELSE SubSeq(PoseMap(ps, pt \o << 0, 0 >>), 1, 3)

\* The poses: every rotation of the model at the origin, at the translation
\* of P2 in src/test.py and at a third position.
GeoPoses == { [T |-> t, R |-> r] :
                t \in { <<0, 0, 0>>, <<3, 2, 1>>, <<1, 0, -1>> },
                r \in Rotations }

\* The positions: the cells around the origin and the two points of
\* src/test.py.
GeoPositions == [1..3 -> (-1)..1] \cup { <<3, 4, 5>>, <<-7, 1, 9>> }

GeoArgs ==
    GeoPositions
    \cup { << p[1], p[2], p[3], a[1], a[2] >> :
             p \in GeoPositions, a \in AxisDirections }

\* d is mapped through the pose, and the result through the inverse pose.
map_call ==
    /\ call.op = "given"
    /\ \E fwd \in { Map(call.ps, call.pt) } :
          call' = [ call EXCEPT !.op = "map", !.fwd = fwd,
                                !.back = InvMap(call.ps, fwd) ]

InitGeo ==
    /\ scene = NetScene
    /\ ret = NoCall
    /\ occ = Idle
    /\ gen = <<>>
    /\ NoNet
    /\ rmodel = <<>>
    /\ \E ps \in GeoPoses, pt \in GeoArgs :
          call = [ op |-> "given", ps |-> ps, pt |-> pt,
                   fwd |-> <<>>, back |-> <<>> ]

NextGeo == map_call /\ UNCHANGED <<scene, ret, occ, gen, net, rmodel>>

SpecGeo == InitGeo /\ [][NextGeo]_vars

---------------------------------------------------------------------------
(* C16 *)

---------------------------------------------------------------------------
(* C17 *)

\* The position of a point and the angles of a directional point.
PositionOf(pt) == << pt[1], pt[2], pt[3] >>

AnglesOf(pt) == << pt[4], pt[5] >>

===========================================================================
